---- MODULE Spec2Model ----
(***************************************************************************)
(* Model of packages/core/src/hooklist.rs: HookList, the per-scope hook    *)
(* store.  `vals` is the ledger (a Vec of (boxed value, cleanup closure)), *)
(* `idx` the cursor.  Positions are 0-based as in the source; TLA+         *)
(* sequences are 1-based, so position i is vals[i + 1].                    *)
(***************************************************************************)
EXTENDS Integers, Sequences, FiniteSets

\* Largest ledger the model builds (push_hook is disabled beyond it).
MaxLen == 3

\* Most traversal cycles the driver of DriverSpec runs.
MaxCycles == 3

\* The concrete types T a caller can name in next::<T> and push_hook::<T>.
Types == {"int", "str"}

\* The contents a stored value can have (the payload behind the Box).
Values == {1, 2}

VARIABLES
    vals,     \* HookList.vals: sequence of [ty, val, cleanup]
    idx,      \* HookList.idx
    alive,    \* "live", "dropping" (inside Drop::drop) or "dropped"
    drain,    \* entries still held by the Drain iterator inside Drop::drop
    events,   \* what destruction did so far: cleanup calls and releases, in order
    klen,     \* the ledger length when Drop::drop was entered
    doomed,   \* the ledger as it was when Drop::drop was entered
    hist,     \* the entries handed out (as &mut) since the last reset, in order
    clean,    \* no next call of this cycle asked for a type other than the stored one
    rewound,  \* reset has been called at least once
    last,     \* the call just made and what it returned
    drv       \* the driver running a component body over the store (DriverSpec)

vars == <<vals, idx, alive, drain, events, klen, doomed, doomed, hist, clean, rewound, last, drv>>

\* Option::None / Option::Some(x), as a sequence of at most one element.
None == <<>>
Some(x) == <<x>>

\* ---------------------------------------------------------------- helpers

\* Vec::len
len == Len(vals)

\* HookList::cur_idx
cur_idx == idx

\* HookList::at_end
at_end == cur_idx >= len

\* A mutant of get: the bound test is off by one, so the position one past
\* the end yields the last entry.
get_inclusive(v, i) ==
    IF i < Len(v) THEN Some([pos |-> i, e |-> v[i + 1]])
    ELSE IF i = Len(v) /\ Len(v) > 0 THEN Some([pos |-> i - 1, e |-> v[i]])
    ELSE None

\* A mutant of get: the cursor is read after it was advanced, so the entry
\* one further on is fetched.
get_after(v, i) ==
    IF i + 1 < Len(v) THEN Some([pos |-> i + 1, e |-> v[i + 2]]) ELSE None

\* slice::get(i): the entry at position i, or None when i is out of range.
get(v, i) ==
    IF i < Len(v) THEN Some([pos |-> i, e |-> v[i + 1]]) ELSE None

\* <dyn Any>::downcast_mut::<T>: the value, if its concrete type is T.
downcast_mut(inn, T) ==
    IF inn.e.ty = T THEN Some(inn) ELSE None

\* A mutant of the cursor step inside next: the cursor skips an entry.
advance_two(i) == i + 2

\* self.idx.set(self.idx.get() + 1)
advance(i) == i + 1

\* A mutant of push: the entry goes in at the front.
push_front(v, e) == <<e>> \o v

\* Vec::push
push(v, e) == Append(v, e)

\* What a call left in `last`.  step tells how far the calls up to this one
\* are into "next finds the end, push_hook, next": "exhausted" for a next
\* that found the cursor at the end, "registered" for a push_hook made
\* directly after that, "reread" for a next made directly after that.
Call(op, req, pre, ret) ==
    [op |-> op, prevop |-> last.op, req |-> req, pre |-> pre, ret |-> ret,
     step |-> IF op = "next" /\ ret = None /\ pre >= Len(vals) THEN "exhausted"
              ELSE IF op = "push_hook" /\ last.step = "exhausted" THEN "registered"
              ELSE IF op = "next" /\ last.step = "registered" THEN "reread"
              ELSE "-"]

\* ---------------------------------------------------------------- actions

Init ==
    /\ vals = <<>>
    /\ idx = 0
    /\ alive = "live"
    /\ drain = <<>>
    /\ events = <<>>
    /\ klen = 0
    /\ hist = <<>>
    /\ clean = TRUE
    /\ rewound = FALSE
    /\ doomed = <<>>
    /\ last = [op |-> "new", prevop |-> "new", req |-> "-", pre |-> 0, ret |-> None,
               step |-> "-"]

\* HookList::next::<T>
next(T) ==
    /\ alive = "live"
    /\ LET got == get(vals, idx) IN
       IF got = None
       THEN /\ last' = Call("next", T, idx, None)
            /\ UNCHANGED <<idx, hist, clean>>
       ELSE LET ret == downcast_mut(got[1], T) IN
            /\ idx' = advance(idx)
            /\ last' = Call("next", T, idx, ret)
            /\ hist' = IF ret = None THEN hist
                       ELSE Append(hist, [pos |-> ret[1].pos, id |-> ret[1].e.cleanup])
            /\ clean' = (clean /\ got[1].e.ty = T)
    /\ UNCHANGED <<vals, alive, drain, events, klen, doomed, rewound>>

\* A mutant of reset: the cursor steps back one entry.
reset_back_one(i) == IF i > 0 THEN i - 1 ELSE 0

\* A mutant of reset: the cursor is set to 1, not 0.
reset_to_one(i) == 1

\* The value reset gives the cursor: self.idx.set(0).
reset_idx(i) == 0

\* HookList::reset.  It is unsafe: its caller guarantees that no reference
\* handed out by next is still in use, so none is live afterwards.
reset ==
    /\ alive = "live"
    /\ idx' = reset_idx(idx)
    /\ hist' = <<>>
    /\ clean' = TRUE
    /\ rewound' = TRUE
    /\ last' = Call("reset", "-", idx, None)
    /\ UNCHANGED <<vals, alive, drain, events, klen, doomed>>

\* HookList::push_hook::<T>(new, cleanup).  The cleanup closure is named by
\* the ordinal of the call that passed it: the k-th registered closure is k.
push_hook(T, new) ==
    /\ alive = "live"
    /\ Len(vals) < MaxLen
    /\ LET e == [ty |-> T, val |-> new, cleanup |-> Len(vals) + 1] IN
       /\ vals' = push(vals, e)
       /\ last' = Call("push_hook", T, idx, Some([pos |-> Len(vals), e |-> e]))
    /\ UNCHANGED <<idx, alive, drain, events, klen, doomed, hist, clean, rewound>>

\* A caller writes through the &mut T that next returned earlier in this
\* cycle for position p: the contents change, the concrete type cannot.
write(p, v) ==
    /\ alive = "live"
    /\ \E k \in 1..Len(hist) : hist[k].pos = p
    /\ vals[p + 1].val # v
    /\ vals' = [vals EXCEPT ![p + 1].val = v]
    /\ last' = Call("write", vals[p + 1].ty, idx, Some([pos |-> p, e |-> vals'[p + 1]]))
    /\ UNCHANGED <<idx, alive, drain, events, klen, doomed, hist, clean, rewound>>

\* RECURSIVE helper: a sequence reversed.
RECURSIVE Reverse(_)
Reverse(s) == IF s = <<>> THEN <<>> ELSE Append(Reverse(Tail(s)), Head(s))

\* A mutant of drained: the entries are taken newest first (as by pop).
drained_newest_first(v, i) == Reverse(v)

\* A mutant of drained: only the entries the cursor has passed are taken.
drained_up_to_cursor(v, i) == SubSeq(v, 1, IF i < Len(v) THEN i ELSE Len(v))

\* A mutant of drained: values and cleanups are paired off by one, each
\* cleanup getting the value of the entry after its own.
drained_values_shifted(v, i) ==
    [k \in 1..Len(v) |-> [v[k] EXCEPT !.val = v[(k % Len(v)) + 1].val]]

\* Vec::drain(..): every entry, oldest first, whatever the cursor i is.
drained(v, i) == v

\* Drop::drop, entry: borrow_mut().drain(..) empties the Vec and holds the
\* entries in the Drain iterator.
drop_begin ==
    /\ alive = "live"
    /\ alive' = "dropping"
    /\ drain' = drained(vals, idx)
    /\ vals' = <<>>
    /\ klen' = Len(vals)
    /\ doomed' = vals
    /\ hist' = <<>>
    /\ last' = Call("drop", "-", idx, None)
    /\ UNCHANGED <<idx, events, clean, rewound>>

\* A mutant of for_each_body: the value is released first and the cleanup
\* is called afterwards.
release_then_cleanup(e) ==
    << [ev |-> "release", id |-> e.cleanup, val |-> e.val],
       [ev |-> "cleanup", id |-> e.cleanup, val |-> e.val] >>

\* The closure given to for_each, |(mut state, cleanup)| cleanup(state.get_mut()):
\* the cleanup is called with the entry's own value, then `state` goes out of
\* scope at the end of the closure and the value is released.
for_each_body(e) ==
    << [ev |-> "cleanup", id |-> e.cleanup, val |-> e.val],
       [ev |-> "release", id |-> e.cleanup, val |-> e.val] >>

\* Drop::drop, one turn of for_each over the next drained entry.
drop_each ==
    /\ alive = "dropping"
    /\ drain # <<>>
    /\ events' = events \o for_each_body(Head(drain))
    /\ drain' = Tail(drain)
    /\ UNCHANGED <<vals, idx, alive, klen, doomed, hist, clean, rewound, last>>

\* Drop::drop, exit: the iterator is exhausted and the store is gone.
drop_end ==
    /\ alive = "dropping"
    /\ drain = <<>>
    /\ alive' = "dropped"
    /\ UNCHANGED <<vals, idx, drain, events, klen, doomed, hist, clean, rewound, last>>

\* A call of HookList::len: it returns len and changes nothing.
call_len ==
    /\ alive = "live"
    /\ last' = Call("len", "-", idx, Some([n |-> len]))
    /\ UNCHANGED <<vals, idx, alive, drain, events, klen, doomed, hist, clean, rewound>>

\* A call of HookList::cur_idx: it returns idx and changes nothing.
call_cur_idx ==
    /\ alive = "live"
    /\ last' = Call("cur_idx", "-", idx, Some([n |-> cur_idx]))
    /\ UNCHANGED <<vals, idx, alive, drain, events, klen, doomed, hist, clean, rewound>>

\* A call of HookList::at_end: it returns cur_idx() >= len() and changes nothing.
call_at_end ==
    /\ alive = "live"
    /\ last' = Call("at_end", "-", idx, Some([b |-> at_end]))
    /\ UNCHANGED <<vals, idx, alive, drain, events, klen, doomed, hist, clean, rewound>>

\* The driver when no component body is being run over the store.
Idle == [body |-> <<>>, k |-> 0, phase |-> "idle", cycle |-> 0, regs |-> 0, oks |-> 0, fails |-> 0]

\* A store used freely: any caller, any call, in any order.
FreeInit == Init /\ drv = Idle

Next ==
    \/ UNCHANGED drv /\ \E T \in Types : next(T)
    \/ UNCHANGED drv /\ reset
    \/ UNCHANGED drv /\ \E T \in Types, new \in Values : push_hook(T, new)
    \/ UNCHANGED drv /\ \E p \in 0..(MaxLen - 1), v \in Values : write(p, v)
    \/ UNCHANGED drv /\ call_len
    \/ UNCHANGED drv /\ call_cur_idx
    \/ UNCHANGED drv /\ call_at_end
    \/ UNCHANGED drv /\ drop_begin
    \/ UNCHANGED drv /\ drop_each
    \/ UNCHANGED drv /\ drop_end

Spec == FreeInit /\ [][Next]_vars

\* ---------------------------------------------------------------- driver
\* The execution driver and the component body of spec sections 2 and 6:
\* the driver rewinds before every cycle, and the body makes the same hook
\* calls, of types drv.body, in every cycle.  One hook call is next::<T>,
\* and, when that finds the cursor at the end, push_hook::<T> and next::<T>
\* again.  drv.k hook calls of the cycle are complete; regs, oks and fails
\* count the cycle's push_hook calls and its next calls by outcome.

\* The bodies: every fixed sequence of at most MaxLen typed hook calls.
Bodies == UNION {[1..n -> Types] : n \in 0..MaxLen}

DriverInit == Init /\ \E b \in Bodies : drv = [Idle EXCEPT !.body = b]

\* The driver calls rewind and starts the body.
d_rewind ==
    /\ drv.phase \in {"idle", "done"}
    /\ drv.cycle < MaxCycles
    /\ reset
    /\ drv' = [drv EXCEPT !.phase = "run", !.k = 0, !.cycle = @ + 1,
                          !.regs = 0, !.oks = 0, !.fails = 0]

\* The body's next hook call starts: read_next of the hook's type.
d_read ==
    /\ drv.phase = "run"
    /\ drv.k < Len(drv.body)
    /\ next(drv.body[drv.k + 1])
    /\ drv' = IF last'.ret # None
              THEN [drv EXCEPT !.k = @ + 1, !.oks = @ + 1]
              ELSE IF idx' >= Len(vals')
              THEN [drv EXCEPT !.phase = "register", !.fails = @ + 1]
              ELSE [drv EXCEPT !.phase = "error", !.fails = @ + 1]

\* read_next found the end of the ledger: the hook registers its state.
d_register ==
    /\ drv.phase = "register"
    /\ \E new \in Values : push_hook(drv.body[drv.k + 1], new)
    /\ drv' = [drv EXCEPT !.phase = "reread", !.regs = @ + 1]

\* ... and reads it back.
d_reread ==
    /\ drv.phase = "reread"
    /\ next(drv.body[drv.k + 1])
    /\ drv' = IF last'.ret # None
              THEN [drv EXCEPT !.phase = "run", !.k = @ + 1, !.oks = @ + 1]
              ELSE [drv EXCEPT !.phase = "error", !.fails = @ + 1]

\* The body uses a reference a hook call of this cycle gave it.
d_write ==
    /\ drv.phase = "run"
    /\ \E p \in 0..(MaxLen - 1), v \in Values : write(p, v)
    /\ UNCHANGED drv

\* The body returns: the cycle is over.
d_finish ==
    /\ drv.phase = "run"
    /\ drv.k = Len(drv.body)
    /\ drv' = [drv EXCEPT !.phase = "done"]
    /\ UNCHANGED <<vals, idx, alive, drain, events, klen, doomed, hist, clean, rewound, last>>

DriverNext ==
    \/ d_rewind
    \/ d_read
    \/ d_register
    \/ d_reread
    \/ d_write
    \/ d_finish

DriverSpec == DriverInit /\ [][DriverNext]_vars

\* ---------------------------------------------------------------- claims

\* The cleanup calls destruction has made so far, in order.
CleanupLog == SelectSeq(events, LAMBDA x : x.ev = "cleanup")

\* C1: order preservation.  In a cycle whose next calls all asked for the
\* type stored at their position, every call that met an entry returned one,
\* and the k-th value returned is the k-th registered entry, at position
\* k - 1; this holds in the first cycle and after every reset.
C1_OrderPreservation ==
    (alive = "live" /\ clean) =>
        /\ Len(hist) = idx
        /\ \A k \in 1..Len(hist) :
              /\ hist[k].pos = k - 1
              /\ hist[k].id = k
              /\ k <= Len(vals)
              /\ vals[k].cleanup = k
        /\ (last.op = "next" /\ last.ret # None) =>
              last.ret[1].e = vals[last.pre + 1]

C1_Witness ==
    /\ alive = "live" /\ rewound /\ clean
    /\ last.op = "next" /\ last.ret # None
    /\ Len(vals) >= 2 /\ Len(hist) = Len(vals)

\* C2: type-mismatch isolation.  After next::<T> on an entry of another type
\* the call has returned None and the cursor is where it was.
C2_TypeMismatchIsolation ==
    (/\ alive = "live" /\ last.op = "next"
     /\ last.pre < Len(vals)
     /\ vals[last.pre + 1].ty # last.req)
    => (last.ret = None /\ idx = last.pre)

\* C3: exhaustion signal.  next at cursor = len returns None for any type and
\* leaves cursor and ledger as they were, so at_end still holds.
C3_ExhaustionSignal ==
    [][(alive = "live" /\ last'.op = "next" /\ idx = Len(vals)) =>
          (/\ last'.ret = None
           /\ idx' = idx
           /\ vals' = vals
           /\ idx' >= Len(vals'))]_vars

C3_Witness ==
    /\ alive = "live" /\ last.op = "next" /\ last.ret = None
    /\ Len(vals) >= 2 /\ last.pre = Len(vals) /\ at_end

\* C4: successful read.  next::<T> on an entry of type T returns the entry at
\* the pre-call cursor, moves the cursor by exactly one and leaves the ledger
\* (its length and every entry) as it was.
C4_SuccessfulRead ==
    [][(/\ alive = "live" /\ last'.op = "next"
        /\ idx < Len(vals)
        /\ vals[idx + 1].ty = last'.req)
       => (/\ last'.ret = Some([pos |-> idx, e |-> vals[idx + 1]])
           /\ idx' = idx + 1
           /\ vals' = vals)]_vars

C4_Witness ==
    /\ alive = "live" /\ last.op = "next" /\ last.ret # None
    /\ last.pre = 1 /\ idx = 2 /\ Len(vals) = 3

\* C5: teardown once.  No cleanup runs while the store is live; once the
\* store is dropped, exactly as many cleanups have run as it held entries,
\* one for each entry, wherever the cursor was; none runs twice on the way.
C5_TeardownOnce ==
    /\ alive = "live" => events = <<>>
    /\ \A a, b \in 1..Len(CleanupLog) :
          CleanupLog[a].id = CleanupLog[b].id => a = b
    /\ alive = "dropped" =>
          /\ Len(CleanupLog) = klen
          /\ \A i \in 1..klen : \E k \in 1..Len(CleanupLog) : CleanupLog[k].id = i

C5_Witness ==
    /\ alive = "dropped" /\ klen >= 2 /\ idx < klen /\ Len(CleanupLog) = klen

\* C6: teardown order.  Cleanups run oldest entry first: the cleanup of an
\* entry registered earlier is called before that of one registered later.
C6_TeardownOrder ==
    \A a, b \in 1..Len(CleanupLog) :
        a < b => CleanupLog[a].id < CleanupLog[b].id

C6_Witness ==
    /\ alive = "dropped"
    /\ Len(CleanupLog) = 3
    /\ \A k \in 1..3 : CleanupLog[k].id = k

\* C7: append independence.  push_hook, wherever the cursor is, puts the new
\* entry at position old len, makes len one larger, and changes neither the
\* cursor nor any entry already stored.
C7_AppendIndependence ==
    [][(alive = "live" /\ last'.op = "push_hook") =>
          (/\ Len(vals') = Len(vals) + 1
           /\ idx' = idx
           /\ SubSeq(vals', 1, Len(vals)) = vals
           /\ last'.ret[1].pos = Len(vals)
           /\ vals'[Len(vals) + 1] = last'.ret[1].e
           /\ vals'[Len(vals) + 1].ty = last'.req)]_vars

C7_Witness ==
    /\ alive = "live" /\ last.op = "push_hook"
    /\ idx = last.pre /\ idx + 1 < Len(vals) /\ idx > 0

\* C8: rewind effect.  reset sets the cursor to 0 and leaves the ledger (its
\* length, order, types and values) as it was.
C8_RewindEffect ==
    [][(alive = "live" /\ last'.op = "reset") => (idx' = 0 /\ vals' = vals)]_vars

C8_Witness ==
    /\ alive = "live" /\ last.op = "reset"
    /\ last.pre >= 2 /\ idx = 0 /\ Len(vals) >= 2

\* C9: rewind idempotence.  A reset directly after a reset changes nothing
\* of the store: cursor and ledger are what the first reset left, cursor 0.
C9_RewindIdempotence ==
    [][(alive = "live" /\ last.op = "reset" /\ last'.op = "reset") =>
          (/\ idx' = idx
           /\ cur_idx' = 0
           /\ vals' = vals
           /\ hist' = hist
           /\ clean' = clean)]_vars

C9_Witness ==
    /\ alive = "live" /\ last.op = "reset" /\ last.prevop = "reset"
    /\ idx = 0 /\ Len(vals) >= 2

\* C10: cursor bounds.  While the store is live, 0 <= cursor <= len.
C10_CursorBounds ==
    alive = "live" => (0 <= idx /\ idx <= Len(vals))

C10_Witness ==
    /\ alive = "live" /\ ~clean
    /\ Len(vals) >= 2 /\ idx = Len(vals)
    /\ last.op = "next" /\ last.ret = None /\ last.pre = Len(vals)

\* C11: at_end is exactly cursor = len.  While the store is live at_end()
\* is true if and only if the cursor equals len, and a next call that
\* returned a value was made where at_end() was false.
C11_AtEndIffCursorIsLen ==
    alive = "live" =>
        /\ at_end <=> (idx = Len(vals))
        /\ (last.op = "next" /\ last.ret # None) => ~(last.pre >= Len(vals))
        /\ (last.op = "at_end") => (last.ret[1].b <=> (idx = Len(vals)))

C11_Witness ==
    /\ alive = "live" /\ last.op = "at_end" /\ last.prevop = "next"
    /\ last.ret[1].b /\ idx = Len(vals) /\ Len(vals) >= 2 /\ Len(hist) >= 1

\* C12: append-only ledger.  No step of a live store makes the ledger
\* shorter, moves an entry to another index or changes its concrete type;
\* the ledger shrinks only when the store is dropped.
C12_AppendOnlyLedger ==
    [][/\ alive' = "live" =>
            /\ Len(vals') >= Len(vals)
            /\ \A i \in 1..Len(vals) :
                  /\ vals'[i].ty = vals[i].ty
                  /\ vals'[i].cleanup = vals[i].cleanup
       /\ Len(vals') < Len(vals) => (alive = "live" /\ alive' = "dropping")]_vars

C12_Witness ==
    /\ alive = "live" /\ rewound /\ last.op = "write"
    /\ Len(vals) = 3 /\ vals[1].ty # vals[2].ty

\* C13: cursor change discipline.  The cursor grows only in a next call that
\* returns a value and shrinks only in reset; push_hook, len, cur_idx, at_end
\* and a next call that returns None leave it as it was.
C13_CursorDiscipline ==
    [][/\ idx' > idx => (last'.op = "next" /\ last'.ret # None)
       /\ idx' < idx => last'.op = "reset"
       /\ (alive = "live" /\ last'.op \in {"push_hook", "len", "cur_idx", "at_end"})
             => idx' = idx
       /\ (alive = "live" /\ last'.op = "next" /\ last'.ret = None)
             => idx' = idx]_vars

\* The entry of the ledger, as it was when the store was dropped, whose
\* cleanup closure is id.
Doomed(id) == CHOOSE e \in {doomed[k] : k \in 1..Len(doomed)} : e.cleanup = id

\* C14: teardown sees the final value.  Every cleanup is called with the
\* value of its own entry as it was when the store was dropped, that is
\* with every write made through references in earlier cycles.
C14_TeardownSeesFinalValue ==
    \A k \in 1..Len(CleanupLog) :
        /\ \E j \in 1..Len(doomed) : doomed[j].cleanup = CleanupLog[k].id
        /\ CleanupLog[k].val = Doomed(CleanupLog[k].id).val

C14_Witness ==
    /\ alive = "dropped" /\ last.prevop = "write" /\ rewound
    /\ Len(CleanupLog) = 3
    /\ CleanupLog[1].val # CleanupLog[2].val

\* Where in `events` the cleanup of entry id was called (0: not yet).
CleanupAt(id) ==
    IF \E k \in 1..Len(events) : events[k].ev = "cleanup" /\ events[k].id = id
    THEN CHOOSE k \in 1..Len(events) : events[k].ev = "cleanup" /\ events[k].id = id
    ELSE 0

C16_NoDoubleHandOut ==
    alive = "live" =>
        \A a, b \in 1..Len(hist) :
            (hist[a].pos = hist[b].pos \/ hist[a].id = hist[b].id) => a = b

C16_Witness ==
    /\ alive = "live" /\ rewound /\ ~clean
    /\ last.op = "next" /\ last.prevop = "push_hook" /\ last.ret # None
    /\ Len(hist) = 2

\* C17: register then read.  After a next that found the cursor at the end
\* and a push_hook::<T>(v), the cursor is at the new entry (cursor = len - 1,
\* at_end false), and a next::<T> made then returns v and leaves cursor = len.
C17_RegisterThenRead ==
    [][(alive = "live" /\ last.step = "registered") =>
          /\ idx = Len(vals) - 1
          /\ ~at_end
          /\ (last'.op = "next" /\ last'.req = last.req) =>
                /\ last'.ret = Some([pos |-> Len(vals) - 1, e |-> last.ret[1].e])
                /\ idx' = Len(vals')
                /\ at_end']_vars

C17_Witness ==
    /\ alive = "live" /\ last.step = "reread" /\ last.ret # None
    /\ last.pre = 2 /\ Len(vals) = 3 /\ idx = 3 /\ rewound

\* C18: stabilisation under the driver protocol.  With a rewind before every
\* cycle and the same N hook calls in every cycle, the first cycle registers
\* N entries, later cycles register none and all their next calls return a
\* value, len is N from the end of the first cycle on, and every cycle ends
\* with at_end true.
C18_Stabilisation ==
    LET N == Len(drv.body) IN
    /\ drv.phase # "error"
    /\ Len(vals) <= N
    /\ drv.cycle = 1 =>
          /\ drv.regs = Len(vals)
          /\ drv.phase \in {"run", "done"} => (drv.regs = drv.k /\ drv.oks = drv.k)
    /\ drv.cycle >= 2 => (drv.regs = 0 /\ drv.fails = 0 /\ Len(vals) = N /\ drv.oks = drv.k)
    /\ drv.phase = "done" =>
          /\ at_end
          /\ Len(vals) = N
          /\ drv.oks = N
          /\ drv.regs = (IF drv.cycle = 1 THEN N ELSE 0)

C18_Witness ==
    /\ drv.phase = "done" /\ drv.cycle = 3 /\ Len(drv.body) = 3
    /\ drv.body[1] # drv.body[2]
    /\ drv.oks = 3 /\ drv.regs = 0 /\ at_end

====
